---- MODULE Spec2Model ----
(***************************************************************************)
(* The projected normal distribution of pyro/distributions/                *)
(* projected_normal.py: safe_project, ProjectedNormal (construction,       *)
(* expand, mean, mode, rsample, log_prob, the registry of closed forms)    *)
(* and the two registered closed forms _log_prob_2 and _log_prob_3.        *)
(*                                                                         *)
(* Tensors.  A tensor is a view [buf, shape] of a buffer of the heap; a    *)
(* buffer is [shape, data] with data in row-major order.  Tensor.expand    *)
(* makes a second view of the same buffer, so that a write through one     *)
(* view is seen through the other.                                         *)
(*                                                                         *)
(* Numbers.  The floating-point type of a tensor is modelled by a grid of  *)
(* integers: a number is a multiple of the smallest positive subnormal,    *)
(* One is the grid value of 1.0, Tiny the smallest positive normal value   *)
(* (torch.finfo(dtype).tiny) and FMax the largest finite value.  A norm    *)
(* that rounds above FMax is inf, and a finite number divided by inf is 0. *)
(* A norm is carried as its exact square (the sum of squares is taken to   *)
(* neither overflow nor underflow on its way, as with a wider              *)
(* accumulator), so that the coarse grid adds no rounding of its own to    *)
(* the quotient x / norm.                                                  *)
(***************************************************************************)
EXTENDS Integers, Sequences, FiniteSets, TLC

VARIABLES heap, insts, registry, reg_log, default_validate, ret

vars == <<heap, insts, registry, reg_log, default_validate, ret>>

(***************************************************************************)
(* The number format (x.dtype).                                            *)
(***************************************************************************)
One == 64
Tiny == 2
FMax == 512

(***************************************************************************)
(* Bounds of the model.                                                    *)
(***************************************************************************)
MaxBase == 1
MaxInst == 3
MaxReg == 1
MaxDim == 4
MaxBatch == 2

Abs(a) == IF a < 0 THEN -a ELSE a

Sign(a) == IF a < 0 THEN -1 ELSE IF a > 0 THEN 1 ELSE 0

FloorSqrt(v) == CHOOSE s \in 0..One : s * s <= v /\ v < (s + 1) * (s + 1)

\* The square roots of 0..One*One rounded to the nearest integer, tabulated
\* (entry v + 1 is that of v).
SqrtTable ==
    [w \in 1..(One * One + 1) |->
        IF w - 1 - FloorSqrt(w - 1) * FloorSqrt(w - 1) > FloorSqrt(w - 1)
        THEN FloorSqrt(w - 1) + 1 ELSE FloorSqrt(w - 1)] \o <<>>

RoundSqrt(v) == SqrtTable[v + 1]

(***************************************************************************)
(* Shapes and row-major indexing.                                          *)
(***************************************************************************)
Front(s) == SubSeq(s, 1, Len(s) - 1)

\* A sequence given as a function, laid out as a tuple.
Tup(f) == f \o <<>>

RECURSIVE Prod(_)
Prod(s) == IF s = <<>> THEN 1 ELSE s[Len(s)] * Prod(Front(s))

RECURSIVE BaseOff(_, _, _)
BaseOff(k, vs, bs) ==
    IF bs = <<>> THEN 0
    ELSE LET nv == vs[Len(vs)]
             nb == bs[Len(bs)]
             i == k % nv
         IN  (IF nb = 1 THEN 0 ELSE i) + nb * BaseOff(k \div nv, Front(vs), Front(bs))

\* The elements of a view, read through to its buffer (a broadcast dimension
\* repeats the buffer's single entry).
ViewData(h, v) ==
    IF v.shape = h[v.buf].shape THEN h[v.buf].data
    ELSE Tup([k \in 1..Prod(v.shape) |->
                 h[v.buf].data[1 + BaseOff(k - 1, v.shape, h[v.buf].shape)]])

Row(data, d, r) == SubSeq(data, (r - 1) * d + 1, r * d)

RECURSIVE SumSq(_)
SumSq(row) == IF row = <<>> THEN 0 ELSE row[Len(row)] * row[Len(row)] + SumSq(Front(row))

(***************************************************************************)
(* safe_project                                                            *)
(***************************************************************************)
\* torch.linalg.norm(x, dim=-1, keepdim=True): one norm per row, as its square.
NormSq(data, d) == Tup([r \in 1..(Len(data) \div d) |-> SumSq(Row(data, d, r))])

\* The norm rounds to a value beyond the largest finite one.
NormIsInf(n2) == n2 > FMax * FMax + FMax

\* norm.clamp(min=torch.finfo(x.dtype).tiny)
ClampSq(n2) == IF n2 < Tiny * Tiny THEN Tiny * Tiny ELSE n2

\* One element of x / norm.clamp(...).
Quot(xi, n2) ==
    IF NormIsInf(n2) \/ xi = 0 THEN 0
    ELSE Sign(xi) * RoundSqrt((xi * xi * One * One) \div ClampSq(n2))

QuotData(data, d) ==
    LET n2 == NormSq(data, d)
    IN  Tup([k \in 1..Len(data) |-> Quot(data[k], n2[1 + (k - 1) \div d])])

DivideInPlace(h, x) ==
    [heap |-> [h EXCEPT ![x.buf] = [shape |-> x.shape,
                                    data |-> QuotData(ViewData(h, x), x.shape[Len(x.shape)])]],
     out |-> x]

\* x = x / norm.clamp(...): the quotient is a freshly allocated tensor, to
\* which x is rebound.
Divide(h, x) ==
    [heap |-> Append(h, [shape |-> x.shape,
                         data |-> QuotData(ViewData(h, x), x.shape[Len(x.shape)])]),
     out |-> [buf |-> Len(h) + 1, shape |-> x.shape]]

\* x.data.eq(0).all(dim=-1): the rows of the quotient that are all zero.
ZeroRow(data, d, r) == \A j \in 1..d : data[(r - 1) * d + j] = 0

\* x.data[..., 0][mask] = 1, written in place into the quotient.
Override(data, d) ==
    Tup([k \in 1..Len(data) |->
            IF (k - 1) % d = 0 /\ ZeroRow(data, d, 1 + (k - 1) \div d)
            THEN One ELSE data[k]])

SafeProject(h, x) ==
    LET d == x.shape[Len(x.shape)]
        q == Divide(h, x)
    IN  [heap |-> [q.heap EXCEPT ![q.out.buf].data = Override(q.heap[q.out.buf].data, d)],
         out |-> q.out]

(***************************************************************************)
(* Broadcasting of shapes (torch semantics: right-aligned, a size of 1     *)
(* stretches).  NoShape is the failure value.                              *)
(***************************************************************************)
NoShape == <<0>>

RECURSIVE Broadcast(_, _)
Broadcast(a, b) ==
    IF a = NoShape \/ b = NoShape THEN NoShape
    ELSE IF a = <<>> THEN b
    ELSE IF b = <<>> THEN a
    ELSE LET x == a[Len(a)]
             y == b[Len(b)]
             rest == Broadcast(Front(a), Front(b))
         IN  IF rest = NoShape \/ (x # y /\ x # 1 /\ y # 1) THEN NoShape
             ELSE Append(rest, IF x = 1 THEN y ELSE x)

\* Tensor.expand(sizes): every existing dimension keeps its size or is
\* stretched from 1; dimensions may only be added in front.
Expandable(from, to) == Len(to) >= Len(from) /\ Broadcast(from, to) = to

(***************************************************************************)
(* The result of an operation, as its caller sees it.                      *)
(***************************************************************************)
NoArg == [shape |-> <<>>, in_support |-> FALSE, requires_grad |-> FALSE, dim |-> 0, fn |-> ""]

NoRet ==
    [op |-> "none", self |-> 0, kind |-> "ok", err |-> "", advice |-> FALSE,
     shape |-> <<>>, data |-> <<>>, fn |-> "", arg |-> NoArg]

Returned(op, self, shape, data, arg) ==
    [NoRet EXCEPT !.op = op, !.self = self, !.shape = shape, !.data = data, !.arg = arg]

Raised(op, self, kind, err, arg) ==
    [NoRet EXCEPT !.op = op, !.self = self, !.kind = kind, !.err = err, !.arg = arg]

(***************************************************************************)
(* torch.distributions.Distribution: the validation flag.  The class       *)
(* attribute _validate_args is the default; __init__ stores an instance    *)
(* attribute only when validate_args is not None.                          *)
(***************************************************************************)
DistInit(batch_shape, event_shape, validate_args, old) ==
    [batch_shape |-> batch_shape, event_shape |-> event_shape,
     validate_args |-> IF validate_args # "None" THEN validate_args ELSE old]

\* self._validate_args, as Python resolves and tests it.
Validates(inst) ==
    CASE inst.validate_args = "True" -> TRUE
      [] inst.validate_args = "absent" -> default_validate
      [] OTHER -> FALSE

(***************************************************************************)
(* ProjectedNormal.__init__                                                *)
(***************************************************************************)
Fills == {"zero", "unit"}

FillRow(fill, d) ==
    [j \in 1..d |-> IF j > 1 \/ fill = "zero" THEN 0 ELSE One]

\* The caller's concentration tensor: its first row is the fill's, the others
\* are the vector of ones.
ConcData(shape, fill) ==
    LET d == shape[Len(shape)]
    IN  Tup([k \in 1..Prod(shape) |-> IF k <= d THEN FillRow(fill, d)[k] ELSE One])

ConcShapes ==
    {<<>>} \cup {<<d>> : d \in 1..MaxDim} \cup {<<MaxBatch, d>> : d \in 1..MaxDim}

NewInstance(h, shape, validate_args) ==
    LET base == DistInit(Front(shape), <<shape[Len(shape)]>>, validate_args, "absent")
    IN  [concentration |-> [buf |-> Len(h), shape |-> shape],
         batch_shape |-> base.batch_shape,
         event_shape |-> base.event_shape,
         validate_args |-> base.validate_args,
         parent |-> 0]

NumBase == Cardinality({i \in 1..Len(insts) : insts[i].parent = 0})

Construct(shape, fill, validate_args) ==
    /\ Len(insts) < MaxInst
    /\ NumBase < MaxBase
    /\ IF Len(shape) < 1
       THEN /\ ret' = Raised("construct", 0, "AssertionError", "dim", [NoArg EXCEPT !.shape = shape])
            /\ UNCHANGED <<heap, insts>>
       ELSE /\ heap' = Append(heap, [shape |-> shape, data |-> ConcData(shape, fill)])
            /\ insts' = Append(insts, NewInstance(heap', shape, validate_args))
            /\ ret' = Returned("construct", Len(insts'), <<>>, <<>>, [NoArg EXCEPT !.shape = shape])
    /\ UNCHANGED <<registry, reg_log, default_validate>>

(***************************************************************************)
(* ProjectedNormal.expand                                                  *)
(***************************************************************************)
BatchShapes == {<<b>> : b \in 1..MaxBatch}

DictGetResolved(inst) ==
    IF inst.validate_args = "True" \/ (inst.validate_args = "absent" /\ default_validate)
    THEN "True" ELSE "False"

\* line 72: new._validate_args = self.__dict__.get('_validate_args')
DictGet(inst) == IF inst.validate_args = "absent" THEN "None" ELSE inst.validate_args

ExpandedKeepsBatch(self, i, batch_shape) ==
    LET base == DistInit(self.batch_shape, self.event_shape, "False", "absent")
    IN  [concentration |-> [buf |-> self.concentration.buf,
                            shape |-> batch_shape \o <<self.concentration.shape[Len(self.concentration.shape)]>>],
         batch_shape |-> base.batch_shape,
         event_shape |-> base.event_shape,
         validate_args |-> DictGet(self),
         parent |-> i]

Expanded(self, i, batch_shape) ==
    LET base == DistInit(batch_shape, self.event_shape, "False", "absent")
    IN  [concentration |-> [buf |-> self.concentration.buf,
                            shape |-> batch_shape \o <<self.concentration.shape[Len(self.concentration.shape)]>>],
         batch_shape |-> base.batch_shape,
         event_shape |-> base.event_shape,
         validate_args |-> DictGet(self),
         parent |-> i]

Expand(i, batch_shape) ==
    /\ i \in 1..Len(insts)
    /\ Len(insts) < MaxInst
    /\ LET self == insts[i]
           arg == [NoArg EXCEPT !.shape = batch_shape]
           to == batch_shape \o <<self.concentration.shape[Len(self.concentration.shape)]>>
       IN  IF ~Expandable(self.concentration.shape, to)
           THEN /\ ret' = Raised("expand", i, "RuntimeError", "expand", arg)
                /\ UNCHANGED insts
           ELSE /\ insts' = Append(insts, Expanded(self, i, batch_shape))
                /\ ret' = Returned("expand", i, <<>>, <<>>, arg)
    /\ UNCHANGED <<heap, registry, reg_log, default_validate>>

(***************************************************************************)
(* mean, mode, rsample                                                     *)
(***************************************************************************)
\* What the caller receives: the result tensor; the buffers the call
\* allocated beyond it are dropped.
Owned(h) == SubSeq(h, 1, Len(heap))

Mean(i) ==
    /\ i \in 1..Len(insts)
    /\ LET r == SafeProject(heap, insts[i].concentration)
       IN  /\ heap' = Owned(r.heap)
           /\ ret' = Returned("mean", i, r.out.shape, r.heap[r.out.buf].data, NoArg)
    /\ UNCHANGED <<insts, registry, reg_log, default_validate>>

Mode(i) ==
    /\ i \in 1..Len(insts)
    /\ LET r == SafeProject(heap, insts[i].concentration)
       IN  /\ heap' = Owned(r.heap)
           /\ ret' = Returned("mode", i, r.out.shape, r.heap[r.out.buf].data, NoArg)
    /\ UNCHANGED <<insts, registry, reg_log, default_validate>>

SampleShapes == {<<>>, <<MaxBatch>>}

Noises == {"one", "neg"}

\* Distribution._extended_shape
ExtendedShape(inst, sample_shape) == sample_shape \o inst.batch_shape \o inst.event_shape

\* A sum rounded into the finite range.
AddNum(a, b) == IF a + b > FMax THEN FMax ELSE IF a + b < -FMax THEN -FMax ELSE a + b

\* concentration.new_empty(shape).normal_(): the draw is all ones, or the one
\* that cancels the concentration.
NoiseData(h, inst, shape, noise) ==
    Tup([k \in 1..Prod(shape) |->
            IF noise = "one" THEN One
            ELSE -(h[inst.concentration.buf].data[
                     1 + BaseOff(k - 1, shape, h[inst.concentration.buf].shape)])])

\* x + self.concentration: a new tensor of the broadcast shape.
AddConc(h, x, c) ==
    LET shape == Broadcast(x.shape, c.shape)
        xs == ViewData(h, [buf |-> x.buf, shape |-> shape])
        cs == ViewData(h, [buf |-> c.buf, shape |-> shape])
    IN  [heap |-> Append(h, [shape |-> shape,
                             data |-> Tup([k \in 1..Prod(shape) |-> AddNum(xs[k], cs[k])])]),
         out |-> [buf |-> Len(h) + 1, shape |-> shape]]

Rsample(i, sample_shape, noise) ==
    /\ i \in 1..Len(insts)
    /\ LET self == insts[i]
           shape == ExtendedShape(self, sample_shape)
           h1 == Append(heap, [shape |-> shape, data |-> NoiseData(heap, self, shape, noise)])
           x1 == [buf |-> Len(h1), shape |-> shape]
           s == AddConc(h1, x1, self.concentration)
           r == SafeProject(s.heap, s.out)
       IN  /\ heap' = Owned(r.heap)
           /\ ret' = Returned("rsample", i, r.out.shape, r.heap[r.out.buf].data,
                              [NoArg EXCEPT !.shape = sample_shape, !.fn = noise])
    /\ UNCHANGED <<insts, registry, reg_log, default_validate>>

(***************************************************************************)
(* log_prob                                                                *)
(***************************************************************************)
Last(s) == s[Len(s)]

\* Distribution._validate_sample, after the check of lines 96-99: the value
\* broadcasts with batch_shape + event_shape and lies in the support.
ValidateSample(self, value) ==
    IF SubSeq(value.shape, Len(value.shape) - Len(self.event_shape) + 1, Len(value.shape))
          # self.event_shape
    THEN "rightmost_size"
    ELSE IF Broadcast(value.shape, self.batch_shape \o self.event_shape) = NoShape
         THEN "not_broadcastable"
    ELSE IF ~value.in_support THEN "support"
    ELSE ""

ValidateValueIfRegistered(self, value) ==
    IF ~Validates(self) \/ Last(self.concentration.shape) \notin DOMAIN registry THEN ""
    ELSE IF <<Last(value.shape)>> # self.event_shape THEN "shape_mismatch"
    ELSE ValidateSample(self, value)

\* Lines 95-100: "" when the value passes or nothing is checked.
ValidateValue(self, value) ==
    IF ~Validates(self) THEN ""
    ELSE IF <<Last(value.shape)>> # self.event_shape THEN "shape_mismatch"
    ELSE ValidateSample(self, value)

DotShapeOfFirst(x, y) ==
    IF Last(x) # Last(y) \/ Broadcast(Front(x), Front(y)) = NoShape THEN NoShape ELSE Front(x)

\* _dot: (x[..., None, :] @ y[..., None])[..., 0, 0]
DotShape(x, y) ==
    IF Last(x) # Last(y) THEN NoShape ELSE Broadcast(Front(x), Front(y))

\* The shape of para_part + perp_part in _log_prob_2 and _log_prob_3.
ImplShape(c, v) ==
    LET t == DotShape(c, v)
        t2 == t
        r2 == Broadcast(DotShape(c, c), t2)
        perp_part == r2
        para_part == t
    IN  Broadcast(para_part, perp_part)

CallImpl(fn, i, self, value) ==
    LET shape == ImplShape(self.concentration.shape, value.shape)
    IN  IF shape = NoShape
        THEN [Raised("log_prob", i, "RuntimeError", "matmul", value) EXCEPT !.fn = fn]
        ELSE [Returned("log_prob", i, shape, <<>>, value) EXCEPT !.fn = fn]

LookupWithFallback(reg, dim) == IF dim \in DOMAIN reg THEN reg[dim] ELSE "_log_prob_3"

\* self._log_prob_impls[dim]; "" stands for the KeyError.
Lookup(reg, dim) == IF dim \in DOMAIN reg THEN reg[dim] ELSE ""

Dispatch(i, self, value) ==
    LET dim == Last(self.concentration.shape)
        impl == Lookup(registry, dim)
    IN  IF impl = ""
        THEN [Raised("log_prob", i, "NotImplementedError", "not_implemented", value)
                 EXCEPT !.advice = value.requires_grad]
        ELSE CallImpl(impl, i, self, value)

ValueLeads == {<<>>, <<MaxBatch>>, <<MaxBatch + 1>>, <<MaxBatch, MaxBatch>>}

\* The values log_prob is called with: of the event's size under every
\* leading shape, and of another size.
Values(self) ==
    {[NoArg EXCEPT !.shape = lead \o self.event_shape, !.in_support = s, !.requires_grad = g] :
        lead \in ValueLeads, s \in BOOLEAN, g \in BOOLEAN}
    \cup {[NoArg EXCEPT !.shape = <<1 + (Last(self.event_shape) % MaxDim)>>,
                        !.in_support = s, !.requires_grad = g] : s \in BOOLEAN, g \in BOOLEAN}

LogProb(i, value) ==
    /\ i \in 1..Len(insts)
    /\ LET self == insts[i]
           check == ValidateValue(self, value)
       IN  ret' = IF check # ""
                  THEN Raised("log_prob", i, "ValueError", check, value)
                  ELSE Dispatch(i, self, value)
    /\ UNCHANGED <<heap, insts, registry, reg_log, default_validate>>

(***************************************************************************)
(* _register_log_prob                                                      *)
(***************************************************************************)
Fns == {"None", "user_fn"}

StoreIfAbsent(reg, dim, fn) ==
    [d \in DOMAIN reg \cup {dim} |-> IF d \in DOMAIN reg THEN reg[d] ELSE fn]

\* cls._log_prob_impls[dim] = fn
Store(reg, dim, fn) ==
    [d \in DOMAIN reg \cup {dim} |-> IF d = dim THEN fn ELSE reg[d]]

Register(dim, fn) ==
    /\ IF fn = "None"
       THEN /\ ret' = [Returned("register", 0, <<>>, <<>>, [NoArg EXCEPT !.dim = dim, !.fn = fn])
                         EXCEPT !.fn = "decorator"]
            /\ UNCHANGED <<registry, reg_log>>
       ELSE /\ Len(reg_log) < 2 + MaxReg
            /\ registry' = Store(registry, dim, fn)
            /\ reg_log' = Append(reg_log, [dim |-> dim, fn |-> fn])
            /\ ret' = [Returned("register", 0, <<>>, <<>>, [NoArg EXCEPT !.dim = dim, !.fn = fn])
                         EXCEPT !.fn = fn]
    /\ UNCHANGED <<heap, insts, default_validate>>

(***************************************************************************)
(* The module as imported: the empty table of line 58 and the two          *)
(* registrations of lines 123 and 142.                                     *)
(***************************************************************************)
InitialRegistry == Store(Store(<<>>, 2, "_log_prob_2"), 3, "_log_prob_3")

Init ==
    /\ heap = <<>>
    /\ insts = <<>>
    /\ registry = InitialRegistry
    /\ reg_log = <<[dim |-> 2, fn |-> "_log_prob_2"], [dim |-> 3, fn |-> "_log_prob_3"]>>
    /\ default_validate \in BOOLEAN
    /\ ret = NoRet

\* The caller takes the result of a call before it makes the next one.
Idle == ret.op = "none"

Take ==
    /\ ~Idle
    /\ ret' = NoRet
    /\ UNCHANGED <<heap, insts, registry, reg_log, default_validate>>

Next ==
    \/ Idle /\ \E shape \in ConcShapes, fill \in Fills, va \in {"True", "False", "None"} :
                   Construct(shape, fill, va)
    \/ Idle /\ \E i \in 1..Len(insts), b \in BatchShapes : Expand(i, b)
    \/ Idle /\ \E i \in 1..Len(insts) : Mean(i)
    \/ Idle /\ \E i \in 1..Len(insts) : Mode(i)
    \/ Idle /\ \E i \in 1..Len(insts), ss \in SampleShapes, noise \in Noises : Rsample(i, ss, noise)
    \/ Idle /\ \E i \in 1..Len(insts) : \E value \in Values(insts[i]) : LogProb(i, value)
    \/ Idle /\ \E dim \in 1..MaxDim, fn \in Fns : Register(dim, fn)
    \/ Take

Spec == Init /\ [][Next]_vars

(***************************************************************************)
(* safe_project on its own, over a wider range of inputs.                  *)
(***************************************************************************)
MaxProjDim == 3

ProjVals == {0, 1, Tiny, One, -One, FMax}

ProjRows(d) == [1..d -> ProjVals]

ProjInputs ==
    {[shape |-> <<d>>, data |-> row] : d \in {1}, row \in ProjRows(1)}
    \cup UNION {{[shape |-> <<d>>, data |-> row] : row \in ProjRows(d)} : d \in 2..MaxProjDim}
    \cup UNION {{[shape |-> <<2, d>>, data |-> r1 \o r2] : r1 \in ProjRows(d), r2 \in ProjRows(d)} :
                   d \in 1..2}

InitProject ==
    /\ \E x \in ProjInputs : heap = <<x>>
    /\ insts = <<>>
    /\ registry = InitialRegistry
    /\ reg_log = <<>>
    /\ default_validate = TRUE
    /\ ret = NoRet

Project ==
    /\ ret.op = "none"
    /\ LET r == SafeProject(heap, [buf |-> 1, shape |-> heap[1].shape])
       IN  /\ heap' = Owned(r.heap)
           /\ ret' = Returned("safe_project", 0, r.out.shape, r.heap[r.out.buf].data, NoArg)
    /\ UNCHANGED <<insts, registry, reg_log, default_validate>>

NextProject == Project

SpecProject == InitProject /\ [][NextProject]_vars

(***************************************************************************)
(* The closed forms _log_prob_2 and _log_prob_3.                           *)
(*                                                                         *)
(* Here a number is an element of the field of integers modulo Modulus, in *)
(* which 2 and pi have square roots and 2 has an inverse, so that the      *)
(* arithmetic of the formulas (products, halves, square roots of the       *)
(* constants) is exact.  exp, erf and log are uninterpreted: each is a     *)
(* fixed function of the field with no algebraic law of its own.           *)
(***************************************************************************)
Modulus == 17
Pi == 13
Half == 9

Add(a, b) == (a + b) % Modulus

Sub(a, b) == (a - b) % Modulus

Mul(a, b) == (a * b) % Modulus

Inv(a) == CHOOSE b \in 1..(Modulus - 1) : Mul(a, b) = 1

Div(a, b) == Mul(a, Inv(b))

\* a ** 0.5 for the constants the formulas take it of: 2, 1/2, 2/pi, 2*pi
\* (6 * 6 = 2 and 8 * 8 = pi modulo 17).
Pow05(a) ==
    CASE a = 2 -> 6
      [] a = Half -> Inv(6)
      [] a = Div(2, Pi) -> Div(6, 8)
      [] a = Mul(2, Pi) -> Mul(6, 8)

Exp(a) == (a * a * a + 2 * a + 5) % Modulus

Erf(a) == (3 * a * a * a + a * a + 7 * a) % Modulus

Ln(a) == (a * a * a + 4 * a * a + 11) % Modulus

RECURSIVE DotData(_, _)
DotData(x, y) ==
    IF x = <<>> THEN 0 ELSE Add(Mul(Last(x), Last(y)), DotData(Front(x), Front(y)))

LogProb2WrongPerp(concentration, value) ==
    LET t == DotData(concentration, value)
        t2 == Mul(t, t)
        r2 == Sub(DotData(concentration, concentration), t2)
        perp_part == Sub(Mul(r2, Sub(0, Half)), Ln(Mul(2, Pi)))
        para_part == Ln(Mul(Add(Mul(Exp(Mul(t2, Sub(0, Half))), Pow05(Div(2, Pi))),
                                Mul(t, Add(1, Erf(Mul(t, Pow05(Half)))))),
                            Half))
    IN  Add(para_part, perp_part)

LogProb2(concentration, value) ==
    LET t == DotData(concentration, value)
        t2 == Mul(t, t)
        r2 == Sub(DotData(concentration, concentration), t2)
        perp_part == Sub(Mul(r2, Sub(0, Half)), Mul(Half, Ln(Mul(2, Pi))))
        para_part == Ln(Mul(Add(Mul(Exp(Mul(t2, Sub(0, Half))), Pow05(Div(2, Pi))),
                                Mul(t, Add(1, Erf(Mul(t, Pow05(Half)))))),
                            Half))
    IN  Add(para_part, perp_part)

LogProb3(concentration, value) ==
    LET t == DotData(concentration, value)
        t2 == Mul(t, t)
        r2 == Sub(DotData(concentration, concentration), t2)
        perp_part == Sub(Mul(r2, Sub(0, Half)), Ln(Mul(2, Pi)))
        para_part == Ln(Add(Div(Mul(t, Exp(Mul(t2, Sub(0, Half)))), Pow05(Mul(2, Pi))),
                            Div(Mul(Add(1, t2), Add(1, Erf(Mul(t, Pow05(Half))))), 2)))
    IN  Add(para_part, perp_part)

DensVals == {0, 1, 2, Modulus - 1}

DensInputs ==
    UNION {{<<[shape |-> <<d>>, data |-> c], [shape |-> <<d>>, data |-> v]>> :
               c \in [1..d -> DensVals], v \in [1..d -> DensVals]} : d \in 2..3}

InitDensity ==
    /\ heap \in DensInputs
    /\ insts = <<NewInstance(<<heap[1]>>, heap[1].shape, "False")>>
    /\ registry = InitialRegistry
    /\ reg_log = <<>>
    /\ default_validate = TRUE
    /\ ret = NoRet

\* log_prob of the instance on the value of buffer 2: the dispatch of lines
\* 101-109 and the registered closed form.
Density ==
    /\ Idle
    /\ LET self == insts[1]
           impl == Lookup(registry, Last(self.concentration.shape))
           c == ViewData(heap, self.concentration)
           v == heap[2].data
       IN  ret' = [Returned("log_prob", 1, <<>>,
                            <<IF impl = "_log_prob_2" THEN LogProb2(c, v) ELSE LogProb3(c, v)>>,
                            [NoArg EXCEPT !.shape = heap[2].shape, !.in_support = TRUE])
                     EXCEPT !.fn = impl]
    /\ UNCHANGED <<heap, insts, registry, reg_log, default_validate>>

NextDensity == Density

SpecDensity == InitDensity /\ [][NextDensity]_vars

(***************************************************************************)
(* The properties.                                                         *)
(***************************************************************************)
Self == insts[ret.self]

EventDim(inst) == Last(inst.event_shape)

\* The value is one validation accepts: of the event's size, broadcastable
\* with the instance's shape, on the sphere.
ValuePasses(inst, value) ==
    /\ <<Last(value.shape)>> = inst.event_shape
    /\ Broadcast(value.shape, inst.batch_shape \o inst.event_shape) # NoShape
    /\ value.in_support

Rejected == Validates(Self) /\ ~ValuePasses(Self, ret.arg)

\* C1, as stated: on an instance whose event dimension has no registered
\* implementation, every log_prob call fails with the not-implemented error,
\* whose message carries the advice exactly when the value requires gradients.
C1_AsStated ==
    (ret.op = "log_prob" /\ EventDim(Self) \notin DOMAIN registry)
        => /\ ret.kind = "NotImplementedError"
           /\ ret.advice <=> ret.arg.requires_grad

\* C1, amended: the same, for the calls whose value validation does not
\* reject (validation disabled, or the value passes); a rejected value fails
\* with the validation error instead.  No value is returned either way.
C1_NotImplemented ==
    (ret.op = "log_prob" /\ EventDim(Self) \notin DOMAIN registry)
        => /\ ret.fn = "" /\ ret.shape = <<>> /\ ret.data = <<>>
           /\ IF Rejected
              THEN ret.kind = "ValueError"
              ELSE /\ ret.kind = "NotImplementedError"
                   /\ ret.err = "not_implemented"
                   /\ ret.advice <=> ret.arg.requires_grad

C1_Witness ==
    /\ ret.op = "log_prob"
    /\ EventDim(Self) >= 4
    /\ ret.kind = "NotImplementedError"
    /\ ret.advice
    /\ ret.arg.requires_grad

\* C2, as stated: every instance expand returns has validation disabled,
\* whatever the setting of the instance it was expanded from.
C2_AsStated ==
    \A i \in 1..Len(insts) : insts[i].parent # 0 => ~Validates(insts[i])

\* C2, amended: the instance expand returns validates exactly when the
\* instance it was expanded from had validation set to enabled on the
\* instance itself; a disabled or an unset one (the class default does not
\* count) gives a copy whose log_prob checks nothing.
C2_Propagates ==
    /\ \A i \in 1..Len(insts) :
          insts[i].parent # 0 =>
             (Validates(insts[i]) <=> insts[insts[i].parent].validate_args = "True")
    /\ (ret.op = "log_prob" /\ Self.parent # 0 /\ insts[Self.parent].validate_args # "True")
          => ret.kind # "ValueError"

C2_Witness ==
    /\ ret.op = "log_prob"
    /\ Self.parent # 0
    /\ insts[Self.parent].validate_args = "absent"
    /\ Validates(insts[Self.parent])
    /\ ~ValuePasses(Self, ret.arg)
    /\ ret.kind # "ValueError"

\* C3: with validation enabled, a value whose last axis differs from the event
\* shape fails with the shape-mismatch error, also when the event dimension has
\* no registered implementation; with validation disabled, log_prob raises
\* neither the shape-mismatch nor the support error.
C3_Validation ==
    ret.op = "log_prob" =>
       /\ (Validates(Self) /\ <<Last(ret.arg.shape)>> # Self.event_shape)
             => (ret.kind = "ValueError" /\ ret.err = "shape_mismatch")
       /\ ~Validates(Self) => ret.kind # "ValueError"

C3_Witness ==
    /\ ret.op = "log_prob"
    /\ Validates(Self)
    /\ EventDim(Self) \notin DOMAIN registry
    /\ <<Last(ret.arg.shape)>> # Self.event_shape
    /\ ret.err = "shape_mismatch"

\* C4: no call changes an existing instance: its concentration values, batch
\* shape, event shape and validation flag stay as construction (or the expand
\* that made it) set them; safe_project writes only to the quotient it
\* allocates; expand adds one instance and changes no other.
C4_Frame ==
    [][/\ Len(insts') >= Len(insts)
       /\ Len(insts') <= Len(insts) + 1
       /\ Len(heap') >= Len(heap)
       /\ \A i \in 1..Len(insts) :
             /\ insts'[i] = insts[i]
             /\ heap'[insts[i].concentration.buf] = heap[insts[i].concentration.buf]
             /\ ViewData(heap', insts'[i].concentration) = ViewData(heap, insts[i].concentration)
       /\ ret'.op \in {"mean", "mode", "rsample", "log_prob"} => (insts' = insts /\ heap' = heap)
       /\ ret'.op = "expand" => heap' = heap]_vars

C4_Witness ==
    /\ Len(insts) = 3
    /\ ret.op = "mean"
    /\ ret.self = 1
    /\ insts[3].parent = 2
    /\ ret.data # ViewData(heap, insts[1].concentration)

\* C7, as stated: a succeeding log_prob on an instance of event dimension 2 or
\* 3 returns a tensor of the batch shape.
C7_AsStated ==
    (ret.op = "log_prob" /\ ret.kind = "ok" /\ ret.fn \in {"_log_prob_2", "_log_prob_3"})
        => ret.shape = Self.batch_shape

\* C7, amended: the returned shape is the broadcast of the batch shape with the
\* value's shape without its last axis; it is the batch shape when the value's
\* leading shape is empty or is the batch shape itself.
C7_BroadcastShape ==
    (ret.op = "log_prob" /\ ret.kind = "ok" /\ ret.fn \in {"_log_prob_2", "_log_prob_3"})
        => /\ ret.shape = Broadcast(Self.batch_shape, Front(ret.arg.shape))
           /\ Front(ret.arg.shape) \in {<<>>, Self.batch_shape} => ret.shape = Self.batch_shape

C7_Witness ==
    /\ ret.op = "log_prob"
    /\ ret.kind = "ok"
    /\ ret.fn = "_log_prob_2"
    /\ Len(ret.arg.shape) > Len(Self.batch_shape) + 1
    /\ ret.shape # Self.batch_shape

RECURSIVE Root(_)
Root(i) == IF insts[i].parent = 0 THEN i ELSE Root(insts[i].parent)

\* C8: rsample returns sample_shape + batch_shape + event_shape; construction
\* takes batch_shape and event_shape from the concentration's shape; expand
\* gives the requested batch shape and keeps the event shape, through any
\* chain of expands.
C8_RsampleShape ==
    /\ ret.op = "rsample" =>
          /\ ret.shape = ret.arg.shape \o Self.batch_shape \o Self.event_shape
          /\ Len(ret.data) = Prod(ret.shape)
    /\ (ret.op = "expand" /\ ret.kind = "ok") => insts[Len(insts)].batch_shape = ret.arg.shape
    /\ \A i \in 1..Len(insts) :
          /\ insts[i].event_shape = <<Last(heap[insts[Root(i)].concentration.buf].shape)>>
          /\ insts[i].parent = 0 =>
                insts[i].batch_shape = Front(heap[insts[i].concentration.buf].shape)

C8_Witness ==
    /\ ret.op = "rsample"
    /\ Self.parent # 0
    /\ insts[Self.parent].parent # 0
    /\ Self.batch_shape # insts[Self.parent].batch_shape
    /\ ret.shape = Self.batch_shape \o <<2>>

RECURSIVE LastRegistered(_, _)
LastRegistered(log, dim) ==
    IF log = <<>> THEN ""
    ELSE IF Last(log).dim = dim THEN Last(log).fn
    ELSE LastRegistered(Front(log), dim)

\* C9, as stated: the table starts with dimensions 2 and 3 only; log_prob
\* returns the result of the function last registered for its dimension and
\* fails with the not-implemented error exactly when none was registered.
C9_AsStated ==
    /\ Len(reg_log) = 2 => DOMAIN registry = {2, 3}
    /\ ret.op = "log_prob" =>
          /\ ret.kind = "NotImplementedError" <=> LastRegistered(reg_log, EventDim(Self)) = ""
          /\ ret.fn = LastRegistered(reg_log, EventDim(Self))

\* C9, amended: the same for the calls whose value validation does not reject
\* (a rejected value fails with the validation error before the table is
\* read); the table always holds, for each dimension, the function last
\* registered for it, and nothing for the others.
C9_Registry ==
    /\ Len(reg_log) = 2 =>
          /\ DOMAIN registry = {2, 3}
          /\ registry[2] = "_log_prob_2" /\ registry[3] = "_log_prob_3"
    /\ \A d \in 0..(MaxDim + 1) :
          (IF d \in DOMAIN registry THEN registry[d] ELSE "") = LastRegistered(reg_log, d)
    /\ (ret.op = "log_prob" /\ ~Rejected) =>
          /\ ret.kind = "NotImplementedError" <=> LastRegistered(reg_log, EventDim(Self)) = ""
          /\ ret.fn = LastRegistered(reg_log, EventDim(Self))
    /\ (ret.op = "log_prob" /\ Rejected) => (ret.kind = "ValueError" /\ ret.fn = "")

C9_Witness ==
    /\ ret.op = "log_prob"
    /\ ret.kind = "ok"
    /\ ret.fn = "user_fn"
    /\ EventDim(Self) = 2
    /\ Len(insts) = 3

(***************************************************************************)
(* safe_project (under SpecProject).                                       *)
(***************************************************************************)
ProjDim == Last(heap[1].shape)

ProjRowCount == Len(heap[1].data) \div ProjDim

IsZeroVec(row) == \A j \in 1..Len(row) : row[j] = 0

Canonical(d) == [j \in 1..d |-> IF j = 1 THEN One ELSE 0]

QuotRow(row) == [j \in 1..Len(row) |-> Quot(row[j], SumSq(row))]

\* C5, as stated: an all-zero row becomes [1, 0, ..., 0], and the rows
\* overridden are exactly the all-zero rows of the input: every other row is
\* the input row divided by its clamped norm.
C5_AsStated ==
    ret.op = "safe_project" =>
       \A r \in 1..ProjRowCount :
          Row(ret.data, ProjDim, r) =
             IF IsZeroVec(Row(heap[1].data, ProjDim, r))
             THEN Canonical(ProjDim)
             ELSE QuotRow(Row(heap[1].data, ProjDim, r))

\* Unit norm within the tolerance of the grid.
NormTol == 2 * One

IsUnit(row) == Abs(SumSq(row) - One * One) <= NormTol

\* C6, as stated: every row safe_project returns has Euclidean norm 1.
C6_AsStated ==
    ret.op = "safe_project" =>
       \A r \in 1..ProjRowCount : IsUnit(Row(ret.data, ProjDim, r))

(***************************************************************************)
(* The closed forms (under SpecDensity), as the specification writes them. *)
(***************************************************************************)
Closed2(t, cc) ==
    LET t2 == Mul(t, t)
        r2 == Sub(cc, t2)
        perp_part == Sub(Sub(0, Div(r2, 2)), Mul(Half, Ln(Mul(2, Pi))))
        para_part == Ln(Mul(Half, Add(Mul(Pow05(Div(2, Pi)), Exp(Sub(0, Div(t2, 2)))),
                                      Mul(t, Add(1, Erf(Div(t, Pow05(2))))))))
    IN  Add(para_part, perp_part)

Closed3(t, cc) ==
    LET t2 == Mul(t, t)
        r2 == Sub(cc, t2)
        perp_part == Sub(Sub(0, Div(r2, 2)), Ln(Mul(2, Pi)))
        para_part == Ln(Add(Div(Mul(t, Exp(Sub(0, Div(t2, 2)))), Pow05(Mul(2, Pi))),
                            Div(Mul(Add(1, t2), Add(1, Erf(Div(t, Pow05(2))))), 2)))
    IN  Add(para_part, perp_part)

\* C10: for event dimensions 2 and 3 log_prob is para_part + perp_part of the
\* stated closed forms, a function of t = concentration . value and of the
\* squared norm of the concentration alone.
C10_ClosedForms ==
    ret.op = "log_prob" =>
       LET c == heap[1].data
           v == heap[2].data
       IN  /\ Len(c) = 2 => ret.data = <<Closed2(DotData(c, v), DotData(c, c))>>
           /\ Len(c) = 3 => ret.data = <<Closed3(DotData(c, v), DotData(c, c))>>

C10_Witness ==
    /\ ret.op = "log_prob"
    /\ heap[1].data = <<1, 0>>
    /\ heap[2].data = <<1, 0>>
    /\ ret.data = <<Closed2(1, 1)>>
    /\ Sub(DotData(heap[1].data, heap[1].data), Mul(1, 1)) = 0

====
